---- MODULE Spec2Model ----
(***************************************************************************)
(* Model of notebooks/pytorch-20ng.ipynb: the data preparation and         *)
(* evaluation cells of the 20 Newsgroups notebook.                         *)
(*                                                                         *)
(* The notebook is a linear script.  Each cell (and each loop iteration    *)
(* that reads an input) is an action; pc is the position in the script.    *)
(* The stages are checked under separate specifications, each starting     *)
(* the script at the cell of its stage with that cell's inputs drawn from  *)
(* bounded sets:                                                           *)
(*   SpecHeader, SpecCorpus : the corpus loader (lines 150-168)            *)
(*   SpecVec                : Tokenizer, pad_sequences (lines 203-213)     *)
(*   SpecEmbed              : GloVe loader, embedding matrix (104-110,     *)
(*                            302-317)                                     *)
(*   SpecLookup             : Tokenizer to the embedding lookup of the     *)
(*                            network (203-213, 302-317, 340, 352)         *)
(*   SpecSplit              : the two train_test_split calls (232-240)     *)
(*   SpecEval               : evaluate and confusion_matrix (422-452,      *)
(*                            463-470, 504-505, 521)                       *)
(* The sizes of the notebook (MAX_NUM_WORDS = 10000, TEST_SET = 4000, ...) *)
(* are scaled down; the scaled values are the bounds of the model.         *)
(***************************************************************************)
EXTENDS Integers, Sequences, FiniteSets, TLC

VARIABLES
    pc,                \* position in the script
    \* GloVe loader (lines 104-110)
    line,              \* fields of the line read last: line.split()
    nlines,            \* lines read so far
    embeddings_index,  \* word -> coefficient vector
    \* corpus loader (lines 150-168)
    fs,                \* directory tree under TEXT_DATA_DIR
    names,             \* rest of sorted(os.listdir(TEXT_DATA_DIR))
    fnames,            \* rest of sorted(os.listdir(path))
    path,              \* the directory being read
    label_id,
    labels_index,
    texts,
    labels,
    \* Tokenizer and pad_sequences (lines 203-213)
    tokens,            \* per text, its word sequence (text_to_word_sequence)
    word_index,
    sequences,
    data,
    \* train_test_split (lines 232-240)
    rng42,             \* the permutation RandomState(42) yields
    x_train, y_train, x_val, y_val, x_test, y_test,
    runs,              \* results of earlier runs of the split cell
    \* embedding matrix (lines 302-317)
    embedding_matrix,
    n_not_found,
    embedded,          \* Net.forward: self.embed(x) of the rows of data
    \* evaluate and confusion_matrix (lines 422-452, 463-470, 504-505, 521)
    epoch,
    loader,            \* the loader evaluate was called with
    order,             \* order in which the loader yields its dataset
    batch_idx,
    loss,              \* a rational [num, den]
    correct,
    pred_vector,
    batch_losses,      \* history: criterion(output, target) of each batch
    accuracy,          \* a rational [num, den]
    lossv, accv,
    predictions,
    cm

gloveVars  == <<line, nlines, embeddings_index>>
corpusVars == <<fs, names, fnames, path, label_id, labels_index, texts>>
vecVars    == <<tokens, word_index, sequences>>
splitVars  == <<rng42, x_train, y_train, x_val, y_val, x_test, y_test, runs>>
matrixVars == <<embedding_matrix, n_not_found, embedded>>
evalVars   == <<epoch, loader, order, batch_idx, loss, correct, pred_vector,
                batch_losses, accuracy, lossv, accv, predictions, cm>>
vars == <<pc, gloveVars, corpusVars, labels, vecVars, data, splitVars,
          matrixVars, evalVars>>

----------------------------------------------------------------------------
(* Helpers *)

Min(a, b) == IF a < b THEN a ELSE b

SetMin(S) == CHOOSE x \in S : \A y \in S : x <= y

SeqsUpTo(S, n) == UNION {[1..k -> S] : k \in 0..n}

Range(s) == {s[i] : i \in DOMAIN s}

\* The orderings of a set, as sequences.
RECURSIVE Orderings(_)
Orderings(S) ==
    IF S = {} THEN {<<>>}
    ELSE UNION {{<<x>> \o p : p \in Orderings(S \ {x})} : x \in S}

PermsOf(n) == Orderings(1..n)

Iota(n) == [i \in 1..n |-> i]

\* s[idx[1]], s[idx[2]], ...  (numpy indexing by an index array)
Take(s, idx) == [k \in 1..Len(idx) |-> s[idx[k]]]

\* A value for variables a stage has not assigned yet.
None == "None"

----------------------------------------------------------------------------
(* Corpus loader, lines 150-168 *)

\* Bounds of the directory tree.  Directory entries and file names are the
\* naturals 1..Max, standing for names in lexicographic order.
MaxNames == 2
MaxFiles == 2
MaxTextLen == 5

NL == "\n"
Chars == {"a", NL}

\* The example of the specification: "From: x\nSubject: y\n\nHello world".
ExampleContent ==
    <<"F", "r", "o", "m", ":", " ", "x", NL,
      "S", "u", "b", "j", "e", "c", "t", ":", " ", "y", NL, NL,
      "H", "e", "l", "l", "o", " ", "w", "o", "r", "l", "d">>

HelloWorld == <<"H", "e", "l", "l", "o", " ", "w", "o", "r", "l", "d">>

\* sorted(os.listdir(...)) : the listing as an ascending sequence
RECURSIVE sorted(_)
sorted(S) == IF S = {} THEN <<>>
             ELSE LET m == SetMin(S) IN <<m>> \o sorted(S \ {m})

\* t.find('\n\n') : the lowest (0-based) index of the separator, or -1
find(t) ==
    LET hits == {i \in 0..(Len(t) - 2) : t[i + 1] = NL /\ t[i + 2] = NL}
    IN IF hits = {} THEN -1 ELSE SetMin(hits)

\* A plausible slip: the slice starts after the separator.
SkipHeaderPastSeparator(t) ==
    LET i == find(t) IN IF 0 < i THEN SubSeq(t, i + 3, Len(t)) ELSE t

\* i = t.find('\n\n'); if 0 < i: t = t[i:]
SkipHeader(t) ==
    LET i == find(t) IN IF 0 < i THEN SubSeq(t, i + 1, Len(t)) ELSE t

\* A plausible slip: ids start at 1.
NextLabelIdFromOne(li) == Cardinality(DOMAIN li) + 1

\* label_id = len(labels_index)
NextLabelId(li) == Cardinality(DOMAIN li)

\* A file of a class directory: its name is numeric or not; its content.
FileEntries(contents) ==
    {[isdigit |-> FALSE, content |-> <<>>]}
    \cup {[isdigit |-> TRUE, content |-> c] : c \in contents}

\* An entry of TEXT_DATA_DIR: a plain file, or a directory of files.
DirEntries(contents, maxFiles) ==
    {[isdir |-> FALSE, files |-> <<>>]}
    \cup {[isdir |-> TRUE, files |-> f] :
            f \in UNION {[D -> FileEntries(contents)] : D \in SUBSET (1..maxFiles)}}

Trees(contents, maxNames, maxFiles) ==
    UNION {[D -> DirEntries(contents, maxFiles)] : D \in SUBSET (1..maxNames)}

\* Contents of the files of SpecCorpus: with a header and without one.
SmallContents == {<<"a", NL, NL, "a">>, <<"a">>}

\* Contents of the one file of SpecHeader.
AllContents == SeqsUpTo(Chars, MaxTextLen) \cup {ExampleContent}

CorpusStart ==
    /\ names = sorted(DOMAIN fs)
    /\ fnames = <<>>
    /\ path = None
    /\ label_id = None
    /\ labels_index = <<>>
    /\ texts = <<>>
    /\ labels = <<>>

CorpusIdle ==
    /\ fs = <<>>
    /\ names = <<>>
    /\ fnames = <<>>
    /\ path = None
    /\ label_id = None
    /\ labels_index = <<>>
    /\ texts = <<>>

\* for name in sorted(os.listdir(TEXT_DATA_DIR)): one iteration, up to the
\* listing of the directory
VisitName ==
    /\ pc = "walk"
    /\ fnames = <<>>
    /\ names # <<>>
    /\ LET name == Head(names) IN
         IF fs[name].isdir
         THEN /\ label_id' = NextLabelId(labels_index)
              /\ labels_index' =
                    [n \in DOMAIN labels_index \cup {name} |->
                        IF n = name THEN NextLabelId(labels_index)
                        ELSE labels_index[n]]
              /\ path' = name
              /\ fnames' = sorted(DOMAIN fs[name].files)
         ELSE UNCHANGED <<label_id, labels_index, path, fnames>>
    /\ names' = Tail(names)
    /\ UNCHANGED <<pc, fs, texts, labels>>
    /\ UNCHANGED <<gloveVars, vecVars, data, splitVars, matrixVars, evalVars>>

\* for fname in sorted(os.listdir(path)): one iteration
VisitFile ==
    /\ pc = "walk"
    /\ fnames # <<>>
    /\ LET f == fs[path].files[Head(fnames)] IN
         IF f.isdigit
         THEN /\ texts' = Append(texts, SkipHeader(f.content))
              /\ labels' = Append(labels, label_id)
         ELSE UNCHANGED <<texts, labels>>
    /\ fnames' = Tail(fnames)
    /\ UNCHANGED <<pc, fs, names, path, label_id, labels_index>>
    /\ UNCHANGED <<gloveVars, vecVars, data, splitVars, matrixVars, evalVars>>

\* print('Found %s texts.' % len(texts))
WalkDone ==
    /\ pc = "walk"
    /\ fnames = <<>>
    /\ names = <<>>
    /\ pc' = "walked"
    /\ UNCHANGED <<corpusVars, labels>>
    /\ UNCHANGED <<gloveVars, vecVars, data, splitVars, matrixVars, evalVars>>

----------------------------------------------------------------------------
(* GloVe loader, lines 104-110 *)

\* Scaled stand-ins for the sizes of the notebook.
embedding_dim == 2        \* line 303: 100
MAX_NUM_WORDS == 3        \* line 203: 10000
MAX_SEQUENCE_LENGTH == 2  \* line 204: 1000

\* Bounds of the inputs.
MaxLines == 2
NumDocs == 1
MaxDocLen == 3

Words == {"the", "cat", "sat"}

\* A field after the word: a float literal, or text float32 cannot parse.
Unparsable == "?"
CoefFields == {"0.0", "1.0", Unparsable}

\* The float32 of a float literal.
Float32(field) == IF field = "0.0" THEN 0 ELSE 1

\* line.split() of a line of the file: no field at all (an empty line), or
\* a word followed by any number of fields, up to one more than the
\* dimension.
GloveLines ==
    {<<>>} \cup
    UNION {{<<w>> \o c : c \in SeqsUpTo(CoefFields, embedding_dim + 1)} : w \in Words}

GloveStart ==
    /\ line = None
    /\ nlines = 0
    /\ embeddings_index = <<>>

\* A line of the file is well-formed when it has 1 + embedding_dim fields.
Malformed(l) == Len(l) # 1 + embedding_dim

\* for line in f: one iteration.  values[0] raises IndexError on an empty
\* line and np.asarray(..., dtype='float32') raises ValueError on a field
\* that is no number; nothing checks the number of fields.
LoadLine ==
    /\ pc = "glove"
    /\ nlines < MaxLines
    /\ \E l \in GloveLines :
         /\ line' = l
         /\ IF l = <<>>
            THEN pc' = "error" /\ UNCHANGED embeddings_index
            ELSE LET word == l[1]
                     coefs == [k \in 1..(Len(l) - 1) |-> Float32(l[k + 1])]
                 IN IF Unparsable \in Range(Tail(l))
                    THEN pc' = "error" /\ UNCHANGED embeddings_index
                    ELSE /\ embeddings_index' =
                              [w \in DOMAIN embeddings_index \cup {word} |->
                                  IF w = word THEN coefs ELSE embeddings_index[w]]
                         /\ UNCHANGED pc
    /\ nlines' = nlines + 1
    /\ UNCHANGED <<vecVars, data, matrixVars>>
    /\ UNCHANGED <<corpusVars, labels, splitVars, evalVars>>

\* The end of the file: the with block is left.  (line, which nothing reads
\* after the loop, is dropped.)
GloveEOF ==
    /\ pc = "glove"
    /\ pc' = "texts"
    /\ line' = None
    /\ UNCHANGED <<nlines, embeddings_index, vecVars, data, matrixVars>>
    /\ UNCHANGED <<corpusVars, labels, splitVars, evalVars>>

----------------------------------------------------------------------------
(* Tokenizer and pad_sequences, lines 203-213 *)

VecStart ==
    /\ tokens = <<>>
    /\ word_index = <<>>
    /\ sequences = <<>>
    /\ data = <<>>

RECURSIVE Flatten(_)
Flatten(ss) == IF ss = <<>> THEN <<>> ELSE Head(ss) \o Flatten(Tail(ss))

\* A plausible slip: the cap is not passed to the Tokenizer.
TokenizerNoNumWords == <<>>

\* text.Tokenizer(num_words=MAX_NUM_WORDS): <<n>> is n, <<>> is None
TokenizerNumWords == <<MAX_NUM_WORDS>>

\* fit_on_texts: words are counted in the order they are first seen and
\* ranked by count, highest first, by a stable sort; ids start at 1.
FitOnTextsIndex(toks) ==
    LET flat == Flatten(toks)
        voc == Range(flat)
        count(w) == Cardinality({i \in DOMAIN flat : flat[i] = w})
        first(w) == SetMin({i \in DOMAIN flat : flat[i] = w})
        before(v, w) == \/ count(v) > count(w)
                        \/ count(v) = count(w) /\ first(v) < first(w)
    IN [w \in voc |-> 1 + Cardinality({v \in voc : before(v, w)})]

\* texts_to_sequences on one text: a word with no id is skipped, and so is
\* a word with num_words and i >= num_words (there is no oov_token).
TextToSequence(doc, wi, num_words) ==
    LET kept(w) == /\ w \in DOMAIN wi
                   /\ ~(num_words # <<>> /\ wi[w] >= num_words[1])
        ws == SelectSeq(doc, kept)
    IN [k \in 1..Len(ws) |-> wi[ws[k]]]

\* A plausible slip: padding='post' is passed.
PaddingPost == "post"

\* pad_sequences(sequences, maxlen=...): padding is left at its default
Padding == "pre"

\* pad_sequences(sequences, maxlen=...): truncating is left at its default
Truncating == "pre"

Zeros(n) == [k \in 1..n |-> 0]

\* pad_sequences on one sequence: x = full(maxlen, 0); trunc = s[-maxlen:]
\* (or s[:maxlen]); x[-len(trunc):] = trunc (or x[:len(trunc)] = trunc)
PadSequence(s, maxlen) ==
    LET trunc == IF Len(s) <= maxlen THEN s
                 ELSE IF Truncating = "pre"
                      THEN SubSeq(s, Len(s) - maxlen + 1, Len(s))
                      ELSE SubSeq(s, 1, maxlen)
    IN IF Padding = "pre"
       THEN Zeros(maxlen - Len(trunc)) \o trunc
       ELSE trunc \o Zeros(maxlen - Len(trunc))

\* The texts the corpus loader collected, each as the word sequence
\* Tokenizer's text_to_word_sequence makes of it.
TextToWordSequence ==
    /\ pc = "texts"
    /\ \E t \in [1..NumDocs -> SeqsUpTo(Words, MaxDocLen)] : tokens' = t
    /\ pc' = "fit"
    /\ UNCHANGED <<word_index, sequences, data, gloveVars, matrixVars>>
    /\ UNCHANGED <<corpusVars, labels, splitVars, evalVars>>

\* tokenizer.fit_on_texts(texts); word_index = tokenizer.word_index
FitOnTexts ==
    /\ pc = "fit"
    /\ word_index' = FitOnTextsIndex(tokens)
    /\ pc' = "to_sequences"
    /\ UNCHANGED <<tokens, sequences, data, gloveVars, matrixVars>>
    /\ UNCHANGED <<corpusVars, labels, splitVars, evalVars>>

\* sequences = tokenizer.texts_to_sequences(texts)
TextsToSequences ==
    /\ pc = "to_sequences"
    /\ sequences' = [d \in DOMAIN tokens |->
                        TextToSequence(tokens[d], word_index, TokenizerNumWords)]
    /\ pc' = "pad"
    /\ UNCHANGED <<tokens, word_index, data, gloveVars, matrixVars>>
    /\ UNCHANGED <<corpusVars, labels, splitVars, evalVars>>

\* data = sequence.pad_sequences(sequences, maxlen=MAX_SEQUENCE_LENGTH)
PadSequences ==
    /\ pc = "pad"
    /\ data' = [d \in DOMAIN sequences |->
                    PadSequence(sequences[d], MAX_SEQUENCE_LENGTH)]
    /\ pc' = "matrix"
    /\ UNCHANGED <<tokens, word_index, sequences, gloveVars, matrixVars>>
    /\ UNCHANGED <<corpusVars, labels, splitVars, evalVars>>

----------------------------------------------------------------------------
(* Embedding matrix, lines 302-317 *)

MatrixStart ==
    /\ embedding_matrix = None
    /\ n_not_found = 0
    /\ embedded = None

\* A plausible slip: the row of the padding id 0 is not counted.
NumWordsWithoutPaddingRow == Min(MAX_NUM_WORDS, Cardinality(DOMAIN word_index))

\* num_words = min(MAX_NUM_WORDS, len(word_index) + 1)
num_words == Min(MAX_NUM_WORDS, Cardinality(DOMAIN word_index) + 1)

\* embedding_matrix[i] = embedding_vector fits the vector to the row as
\* numpy does: a vector of one coefficient is broadcast over the row.
CanAssign(v) == Len(v) = embedding_dim \/ Len(v) = 1

AssignedRow(v) ==
    IF Len(v) = embedding_dim THEN v ELSE [k \in 1..embedding_dim |-> v[1]]

\* The whole cell.  word_index.items() yields the words by ascending id; an
\* assignment to a row the matrix does not have raises IndexError, one numpy
\* cannot broadcast raises ValueError, and either leaves the rows written so
\* far.
BuildMatrix ==
    /\ pc = "matrix"
    /\ LET wordOf == [i \in {word_index[w] : w \in DOMAIN word_index} |->
                         CHOOSE w \in DOMAIN word_index : word_index[w] = i]
           inRange == {i \in DOMAIN wordOf : ~(i >= MAX_NUM_WORDS)}
           found(i) == wordOf[i] \in DOMAIN embeddings_index
           bad == {i \in inRange :
                     /\ found(i)
                     /\ \/ i >= num_words
                        \/ ~CanAssign(embeddings_index[wordOf[i]])}
           done == IF bad = {} THEN inRange
                   ELSE {i \in inRange : i < SetMin(bad)}
       IN /\ embedding_matrix' =
                [i \in 0..(num_words - 1) |->
                    IF i \in done /\ found(i)
                    THEN AssignedRow(embeddings_index[wordOf[i]])
                    ELSE Zeros(embedding_dim)]
          /\ n_not_found' = Cardinality({i \in done : ~found(i)})
          /\ pc' = IF bad = {} THEN "model"
                   ELSE IF SetMin(bad) >= num_words THEN "index_error"
                   ELSE "error"
    /\ UNCHANGED <<embedded, gloveVars, vecVars, data>>
    /\ UNCHANGED <<corpusVars, labels, splitVars, evalVars>>

\* self.embed = nn.Embedding.from_pretrained(embedding_matrix, ...);
\* x = self.embed(x): each id of a row is replaced by the row of the matrix
\* at that index; an id the matrix has no row for raises IndexError.  Every
\* row of data reaches the network through one of the three loaders.
EmbedLookup ==
    /\ pc = "model"
    /\ IF \A d \in DOMAIN data : \A k \in DOMAIN data[d] :
             data[d][k] \in DOMAIN embedding_matrix
       THEN /\ embedded' = [d \in DOMAIN data |->
                                [k \in DOMAIN data[d] |->
                                    embedding_matrix[data[d][k]]]]
            /\ pc' = "embedded"
       ELSE /\ pc' = "index_error"
            /\ UNCHANGED embedded
    /\ UNCHANGED <<embedding_matrix, n_not_found, gloveVars, vecVars, data>>
    /\ UNCHANGED <<corpusVars, labels, splitVars, evalVars>>

----------------------------------------------------------------------------
(* Dataset splitter, lines 232-240 *)

\* Scaled stand-ins for the sizes of the notebook.
VALIDATION_SET == 1       \* line 232: 1000
TEST_SET == 2             \* line 232: 4000

\* Bounds: the number of documents, and the runs of the cell.
MaxSamples == 5
NumRuns == 2

\* The label ids of a corpus of two classes.
CorpusLabels == {0, 1}

SplitIdle ==
    /\ rng42 = <<>>
    /\ x_train = None /\ y_train = None
    /\ x_val = None /\ y_val = None
    /\ x_test = None /\ y_test = None
    /\ runs = <<>>

\* A plausible slip: random_state is not passed.
SplitRandomStateNone == <<>>

\* random_state=42 of the first split: <<n>> is seed n, <<>> is None
SplitRandomState == <<42>>

\* What rng.permutation(n_samples) of the shuffling split can yield: the
\* generator seeded with 42 its one permutation, an unseeded one any.
ShufflePermutations(n) ==
    IF SplitRandomState = <<42>> THEN {rng42} ELSE PermsOf(n)

\* A plausible slip: the second split is given data and labels again.
SecondSplitOfData == [x |-> data, y |-> labels]

\* The arrays the second train_test_split is given: x_train, y_train
SecondSplitArrays == [x |-> x_train, y |-> y_train]

\* A plausible slip: shuffle=False is left out, and the default shuffles.
SecondSplitShuffled == TRUE

\* shuffle=False of the second split
SecondSplitShuffle == FALSE

\* The index array the second split cuts: arange(n) without shuffling, any
\* permutation of it from an unseeded shuffle.
SecondSplitIndices(n) ==
    IF SecondSplitShuffle THEN PermsOf(n) ELSE {Iota(n)}

\* An integer test_size must be below the number of samples.
ValidSplit(n, test_size) == 0 < test_size /\ test_size < n

\* x_train, x_test, y_train, y_test = train_test_split(data, labels,
\*     test_size=TEST_SET, shuffle=True, random_state=42):
\* test is permutation[:n_test], train is permutation[n_test:]
SplitTest ==
    /\ pc = "split_test"
    /\ LET n == Len(data) IN
         IF ~ValidSplit(n, TEST_SET)
         THEN /\ pc' = "error"
              /\ UNCHANGED <<x_train, y_train, x_test, y_test>>
         ELSE \E permutation \in ShufflePermutations(n) :
                LET test == SubSeq(permutation, 1, TEST_SET)
                    train == SubSeq(permutation, TEST_SET + 1, n)
                IN /\ x_train' = Take(data, train)
                   /\ y_train' = Take(labels, train)
                   /\ x_test' = Take(data, test)
                   /\ y_test' = Take(labels, test)
                   /\ pc' = "split_val"
    /\ UNCHANGED <<data, labels, rng42, x_val, y_val, runs>>
    /\ UNCHANGED <<gloveVars, corpusVars, vecVars, matrixVars, evalVars>>

\* x_train, x_val, y_train, y_val = train_test_split(x_train, y_train,
\*     test_size=VALIDATION_SET, shuffle=False):
\* train is arange(n_train), test is arange(n_train, n_train + n_test)
SplitVal ==
    /\ pc = "split_val"
    /\ LET x == SecondSplitArrays.x
           y == SecondSplitArrays.y
           n == Len(x)
           n_train == n - VALIDATION_SET
       IN IF ~ValidSplit(n, VALIDATION_SET)
          THEN /\ pc' = "error"
               /\ UNCHANGED <<x_train, y_train, x_val, y_val>>
          ELSE \E indices \in SecondSplitIndices(n) :
                 LET train == SubSeq(indices, 1, n_train)
                     test == SubSeq(indices, n_train + 1, n)
                 IN /\ x_train' = Take(x, train)
                    /\ y_train' = Take(y, train)
                    /\ x_val' = Take(x, test)
                    /\ y_val' = Take(y, test)
                    /\ pc' = "split_done"
    /\ UNCHANGED <<data, labels, rng42, x_test, y_test, runs>>
    /\ UNCHANGED <<gloveVars, corpusVars, vecVars, matrixVars, evalVars>>

SplitResult ==
    [x_train |-> x_train, y_train |-> y_train, x_val |-> x_val,
     y_val |-> y_val, x_test |-> x_test, y_test |-> y_test]

\* The cell is run again on the same data and labels; runs keeps what the
\* run before produced.
RunAgain ==
    /\ pc = "split_done"
    /\ Len(runs) < NumRuns - 1
    /\ runs' = Append(runs, SplitResult)
    /\ pc' = "split_test"
    /\ UNCHANGED <<data, labels, rng42, x_train, y_train, x_val, y_val,
                   x_test, y_test>>
    /\ UNCHANGED <<gloveVars, corpusVars, vecVars, matrixVars, evalVars>>

----------------------------------------------------------------------------
(* Evaluator, lines 263-283, 422-452, 463-470, 504-505, 521 *)

\* Scaled stand-ins for the sizes of the notebook.
BATCH_SIZE == 1           \* line 263: 128
NumClasses == 2           \* lines 349, 521: 20
epochs == 1               \* line 463: 20

\* criterion(output, target) of a batch is any of these.
Losses == {0, 1}

Classes == 0..(NumClasses - 1)

EvalIdle ==
    /\ epoch = 1
    /\ loader = None
    /\ order = <<>>
    /\ batch_idx = 0
    /\ loss = None
    /\ correct = 0
    /\ pred_vector = <<>>
    /\ batch_losses = <<>>
    /\ accuracy = None
    /\ lossv = <<>>
    /\ accv = <<>>
    /\ predictions = None
    /\ cm = None

\* A plausible slip: the test loader is made with shuffle=True.
TestLoaderShuffled == TRUE

\* test_loader = DataLoader(test_dataset, ..., shuffle=False, ...)
TestLoaderShuffle == FALSE

\* validation_loader = DataLoader(validation_dataset, ..., shuffle=False, ...)
ValidationLoaderShuffle == FALSE

\* The labels of the TensorDataset behind a loader.
Targets(l) == IF l = "validation" THEN y_val ELSE y_test

Shuffle(l) == IF l = "validation" THEN ValidationLoaderShuffle
              ELSE TestLoaderShuffle

\* len(loader): the batches of a DataLoader that keeps its last batch
LoaderLen(l) == (Len(Targets(l)) + BATCH_SIZE - 1) \div BATCH_SIZE

\* The orders in which a DataLoader can yield its dataset.
SamplerOrders(l) ==
    IF Shuffle(l) THEN PermsOf(Len(Targets(l))) ELSE {Iota(Len(Targets(l)))}

\* The call of evaluate(l, ...), up to the loop.
Enter(l) ==
    /\ loader' = l
    /\ order' \in SamplerOrders(l)
    /\ batch_idx' = 0
    /\ loss' = [num |-> 0, den |-> 1]
    /\ correct' = 0
    /\ pred_vector' = <<>>
    /\ batch_losses' = <<>>
    /\ pc' = "evaluate"
    /\ UNCHANGED <<accuracy, lossv, accv, predictions, cm>>

\* for epoch in range(1, epochs + 1): train(epoch), which changes the
\* model in a way not modelled, then evaluate(validation_loader, lossv, accv)
TrainEpoch ==
    /\ pc = "epochs"
    /\ epoch <= epochs
    /\ Enter("validation")
    /\ UNCHANGED epoch
    /\ UNCHANGED <<gloveVars, corpusVars, labels, vecVars, data, splitVars,
                   matrixVars>>

\* predictions = evaluate(test_loader)
Inference ==
    /\ pc = "epochs"
    /\ epoch > epochs
    /\ Enter("test")
    /\ UNCHANGED epoch
    /\ UNCHANGED <<gloveVars, corpusVars, labels, vecVars, data, splitVars,
                   matrixVars>>

\* for data, target in loader: one batch.  The output of the model, and
\* so pred and the loss of the batch, is any value.
EvaluateBatch ==
    /\ pc = "evaluate"
    /\ batch_idx < LoaderLen(loader)
    /\ LET n == Len(Targets(loader))
           lo == batch_idx * BATCH_SIZE
           size == Min(BATCH_SIZE, n - lo)
           target == [k \in 1..size |-> Targets(loader)[order[lo + k]]]
       IN \E pred \in [1..size -> Classes], l \in Losses :
            /\ loss' = [num |-> loss.num + l, den |-> 1]
            /\ batch_losses' = Append(batch_losses, l)
            /\ pred_vector' = pred_vector \o pred
            /\ correct' = correct + Cardinality({k \in 1..size : pred[k] = target[k]})
    /\ batch_idx' = batch_idx + 1
    /\ UNCHANGED <<pc, epoch, loader, order, accuracy, lossv, accv, predictions, cm>>
    /\ UNCHANGED <<gloveVars, corpusVars, labels, vecVars, data, splitVars,
                   matrixVars>>

\* The rest of evaluate: loss /= len(validation_loader), whatever loader
\* was given; accuracy = 100. * correct / len(loader.dataset); the vectors
\* are appended to when given; pred_vector is returned.
EvaluateReturn ==
    /\ pc = "evaluate"
    /\ batch_idx = LoaderLen(loader)
    /\ LET mean == [num |-> loss.num, den |-> LoaderLen("validation")]
           acc == [num |-> 100 * correct, den |-> Len(Targets(loader))]
       IN /\ loss' = mean
          /\ accuracy' = acc
          /\ IF loader = "validation"
             THEN /\ lossv' = Append(lossv, mean)
                  /\ accv' = Append(accv, acc)
                  /\ epoch' = epoch + 1
                  /\ pc' = "epochs"
                  /\ UNCHANGED predictions
             ELSE /\ predictions' = pred_vector
                  /\ pc' = "inference_done"
                  /\ UNCHANGED <<lossv, accv, epoch>>
    /\ UNCHANGED <<loader, order, batch_idx, correct, pred_vector, batch_losses, cm>>
    /\ UNCHANGED <<gloveVars, corpusVars, labels, vecVars, data, splitVars,
                   matrixVars>>

\* confusion_matrix(y_true, y_pred, labels=list(range(20))): entry i, j
\* counts the samples of true label i predicted j
confusion_matrix(y_true, y_pred) ==
    [i \in Classes |-> [j \in Classes |->
        Cardinality({k \in DOMAIN y_true : y_true[k] = i /\ y_pred[k] = j})]]

\* cm=confusion_matrix(y_test, predictions, labels=list(range(20)))
ConfusionMatrix ==
    /\ pc = "inference_done"
    /\ cm' = confusion_matrix(y_test, predictions)
    /\ pc' = "done"
    /\ UNCHANGED <<epoch, loader, order, batch_idx, loss, correct, pred_vector,
                   batch_losses, accuracy, lossv, accv, predictions>>
    /\ UNCHANGED <<gloveVars, corpusVars, labels, vecVars, data, splitVars,
                   matrixVars>>

----------------------------------------------------------------------------
(* Specifications *)

\* The corpus loader on a tree of class directories.
InitCorpus ==
    /\ pc = "walk"
    /\ fs \in Trees(SmallContents, MaxNames, MaxFiles)
    /\ CorpusStart
    /\ GloveStart /\ VecStart /\ SplitIdle /\ MatrixStart /\ EvalIdle

\* The corpus loader on one entry holding one file, of any content.
InitHeader ==
    /\ pc = "walk"
    /\ fs \in Trees(AllContents, 1, 1)
    /\ CorpusStart
    /\ GloveStart /\ VecStart /\ SplitIdle /\ MatrixStart /\ EvalIdle

NextCorpus == VisitName \/ VisitFile \/ WalkDone

SpecCorpus == InitCorpus /\ [][NextCorpus]_vars

SpecHeader == InitHeader /\ [][NextCorpus]_vars

\* The script from the Tokenizer on, the embedding file being empty.
InitVec ==
    /\ pc = "texts"
    /\ GloveStart /\ VecStart /\ MatrixStart
    /\ CorpusIdle /\ labels = <<>> /\ SplitIdle /\ EvalIdle

NextVec ==
    TextToWordSequence \/ FitOnTexts \/ TextsToSequences \/ PadSequences
        \/ BuildMatrix

SpecVec == InitVec /\ [][NextVec]_vars

\* The script from the embedding file to the embedding matrix.
InitEmbed ==
    /\ pc = "glove"
    /\ GloveStart /\ VecStart /\ MatrixStart
    /\ CorpusIdle /\ labels = <<>> /\ SplitIdle /\ EvalIdle

NextEmbed ==
    LoadLine \/ GloveEOF \/ TextToWordSequence \/ FitOnTexts
        \/ TextsToSequences \/ PadSequences \/ BuildMatrix

SpecEmbed == InitEmbed /\ [][NextEmbed]_vars

\* An embedding table the loader can leave: at most MaxLines words, each
\* with a vector of embedding_dim coefficients.
LoadedTables ==
    UNION {[S -> {[k \in 1..embedding_dim |-> 1]}] :
             S \in {T \in SUBSET Words : Cardinality(T) <= MaxLines}}

\* The script from the Tokenizer to the embedding lookup, the embedding
\* file having been loaded.
InitLookup ==
    /\ pc = "texts"
    /\ embeddings_index \in LoadedTables
    /\ line = None
    /\ nlines = Cardinality(DOMAIN embeddings_index)
    /\ VecStart /\ MatrixStart
    /\ CorpusIdle /\ labels = <<>> /\ SplitIdle /\ EvalIdle

NextLookup ==
    TextToWordSequence \/ FitOnTexts \/ TextsToSequences \/ PadSequences
        \/ BuildMatrix \/ EmbedLookup

SpecLookup == InitLookup /\ [][NextLookup]_vars

\* The split cell on any labelled data; each row of data is told apart
\* from the others by its content.
InitSplit ==
    /\ pc = "split_test"
    /\ \E n \in 1..MaxSamples :
         /\ data = [i \in 1..n |-> <<i>>]
         /\ labels \in [1..n -> CorpusLabels]
         /\ rng42 \in PermsOf(n)
    /\ x_train = None /\ y_train = None
    /\ x_val = None /\ y_val = None
    /\ x_test = None /\ y_test = None
    /\ runs = <<>>
    /\ GloveStart /\ CorpusIdle /\ tokens = <<>> /\ word_index = <<>>
    /\ sequences = <<>> /\ MatrixStart /\ EvalIdle

NextSplit == SplitTest \/ SplitVal \/ RunAgain

SpecSplit == InitSplit /\ [][NextSplit]_vars

\* The training loop and the inference on any validation and test labels.
InitEval ==
    /\ pc = "epochs"
    /\ y_val \in [1..VALIDATION_SET -> CorpusLabels]
    /\ y_test \in [1..TEST_SET -> CorpusLabels]
    /\ rng42 = <<>>
    /\ x_train = None /\ y_train = None /\ x_val = None /\ x_test = None
    /\ runs = <<>>
    /\ EvalIdle
    /\ GloveStart /\ CorpusIdle /\ labels = <<>> /\ VecStart /\ MatrixStart

NextEval ==
    TrainEpoch \/ Inference \/ EvaluateBatch \/ EvaluateReturn
        \/ ConfusionMatrix

SpecEval == InitEval /\ [][NextEval]_vars

\* The default specification: the script from the Tokenizer on.
Spec == SpecVec

----------------------------------------------------------------------------
(* Claims *)

Encoded == pc \in {"matrix", "model"}

\* C1: every document is encoded as exactly MAX_SEQUENCE_LENGTH ids: a
\* longer id list keeps its trailing MAX_SEQUENCE_LENGTH ids in order, a
\* shorter one is left-padded with 0 and keeps its ids in order at the end;
\* with maxlen 5, [1,2,3,4,5,6,7] gives [3,4,5,6,7] and [1,2] gives
\* [0,0,0,1,2].
C1_PadTruncate ==
    /\ Encoded =>
         /\ DOMAIN data = DOMAIN tokens
         /\ \A d \in DOMAIN data :
              LET s == sequences[d]
                  off == Len(s) - MAX_SEQUENCE_LENGTH
              IN /\ Len(data[d]) = MAX_SEQUENCE_LENGTH
                 /\ \A k \in 1..MAX_SEQUENCE_LENGTH :
                      data[d][k] = IF k + off >= 1 THEN s[k + off] ELSE 0
    /\ PadSequence(<<1, 2, 3, 4, 5, 6, 7>>, 5) = <<3, 4, 5, 6, 7>>
    /\ PadSequence(<<1, 2>>, 5) = <<0, 0, 0, 1, 2>>

\* A document with more ids than MAX_SEQUENCE_LENGTH has been encoded.
C1_Witness ==
    /\ Encoded
    /\ \E d \in DOMAIN data : Len(sequences[d]) > MAX_SEQUENCE_LENGTH

\* C2: every entry of the data tensor is an id in 0..MAX_NUM_WORDS-1; a
\* word ranked MAX_NUM_WORDS or later is dropped, not replaced by a
\* reserved id; 0 occurs only as padding.
C2_IdsInRange ==
    Encoded =>
      \A d \in DOMAIN data :
        LET s == sequences[d]
            keptAt == {k \in DOMAIN tokens[d] :
                         word_index[tokens[d][k]] < MAX_NUM_WORDS}
        IN /\ \A k \in DOMAIN data[d] : data[d][k] \in 0..(MAX_NUM_WORDS - 1)
           /\ \A k \in DOMAIN s : s[k] \in 1..(MAX_NUM_WORDS - 1)
           /\ Len(s) = Cardinality(keptAt)
           /\ \A k \in DOMAIN data[d] :
                data[d][k] = 0 => k <= MAX_SEQUENCE_LENGTH - Len(s)

\* A document with a word ranked MAX_NUM_WORDS or later has been encoded.
C2_Witness ==
    /\ Encoded
    /\ \E d \in DOMAIN tokens : \E k \in DOMAIN tokens[d] :
         word_index[tokens[d][k]] >= MAX_NUM_WORDS

SplitDone == pc = "split_done"

\* The places of row r in array x.
PlacesOf(r, x) == {k \in DOMAIN x : x[k] = r}

\* C3: after the two splits the train, validation and test sets partition
\* the corpus: test has TEST_SET documents, validation VALIDATION_SET,
\* train the rest; every document is in exactly one set, once; every
\* sequence is beside its own label.
C3_Partition ==
    SplitDone =>
      LET n == Len(data)
          paired(x, y) ==
              /\ Len(x) = Len(y)
              /\ \A k \in DOMAIN x :
                   \E i \in 1..n : x[k] = data[i] /\ y[k] = labels[i]
      IN /\ Len(x_test) = TEST_SET
         /\ Len(x_val) = VALIDATION_SET
         /\ Len(x_train) = n - TEST_SET - VALIDATION_SET
         /\ Len(x_train) + Len(x_val) + Len(x_test) = n
         /\ \A i \in 1..n :
              Cardinality(PlacesOf(data[i], x_train))
                + Cardinality(PlacesOf(data[i], x_val))
                + Cardinality(PlacesOf(data[i], x_test)) = 1
         /\ paired(x_train, y_train)
         /\ paired(x_val, y_val)
         /\ paired(x_test, y_test)

\* A corpus has been split into a test set and a validation set with two
\* or more documents left to train on.
C3_Witness == SplitDone /\ Len(x_train) >= 2 /\ Len(x_test) = TEST_SET

\* C8: a second run of the split cell on the same data and labels, with
\* random_state=42, gives the train, validation and test sets of the
\* first run, member by member.
C8_Deterministic ==
    \A r \in DOMAIN runs :
      /\ SplitDone => runs[r] = SplitResult
      /\ pc = "split_val" =>
           runs[r].x_test = x_test /\ runs[r].y_test = y_test

\* The cell has been run twice on a corpus it reorders.
C8_Witness ==
    /\ SplitDone
    /\ runs # <<>>
    /\ rng42 # Iota(Len(data))

\* C11: the second split cuts the sequence left after the test set was
\* removed without reordering it: the validation set is its last
\* VALIDATION_SET elements in their order, the final training set the
\* elements before them in their order, and the labels are cut alike.
C11_ContiguousTailCut ==
    [][(pc = "split_val" /\ pc' = "split_done") =>
         LET n == Len(x_train)
             cut == n - VALIDATION_SET
         IN /\ x_val' = SubSeq(x_train, cut + 1, n)
            /\ y_val' = SubSeq(y_train, cut + 1, n)
            /\ x_train' = SubSeq(x_train, 1, cut)
            /\ y_train' = SubSeq(y_train, 1, cut)
            /\ x_train' \o x_val' = x_train
            /\ y_train' \o y_val' = y_train]_vars

\* The second split has cut a sequence the first split left out of corpus
\* order, with two or more documents before the cut.
C11_Witness ==
    /\ SplitDone
    /\ Len(x_train) >= 2
    /\ Len(x_val) = VALIDATION_SET
    /\ \E j, k \in DOMAIN x_train : j < k /\ x_train[j][1] > x_train[k][1]

RECURSIVE SumOver(_, _)
SumOver(f, S) ==
    IF S = {} THEN 0
    ELSE LET x == CHOOSE x \in S : TRUE IN f[x] + SumOver(f, S \ {x})

\* C5: in the confusion matrix of y_test and the predictions of
\* evaluate(test_loader), row c sums to the number of test examples of true
\* label c, and the diagonal sums to the correct count evaluate reported.
C5_ConfusionMatrix ==
    pc = "done" =>
      /\ \A c \in Classes :
           SumOver(cm[c], Classes)
             = Cardinality({k \in DOMAIN y_test : y_test[k] = c})
      /\ SumOver([c \in Classes |-> cm[c][c]], Classes) = correct

\* A confusion matrix of a test set with right and wrong predictions, of
\* two true labels.
C5_Witness ==
    /\ pc = "done"
    /\ correct >= 1
    /\ correct < Len(y_test)
    /\ Cardinality(Range(y_test)) >= 2

\* evaluate has returned: its variables are those of the last call.
Returned == pc \in {"epochs", "inference_done", "done"} /\ loader # None

\* C10: for the loader given to evaluate, the reported mean loss is the sum
\* of the losses of its batches over the number of its batches, and the
\* reported accuracy is 100 * correct over the examples of its dataset.
C10_MeanLossAccuracy ==
    Returned =>
      LET total == SumOver(batch_losses, DOMAIN batch_losses)
          hits == Cardinality({k \in DOMAIN pred_vector :
                                 pred_vector[k] = Targets(loader)[k]})
      IN /\ loss.num * LoaderLen(loader) = total * loss.den
         /\ accuracy.num * Len(Targets(loader)) = 100 * hits * accuracy.den

HasSeparator(c) == \E j \in 1..(Len(c) - 1) : c[j] = NL /\ c[j + 1] = NL

\* t is c from its first blank-line separator on (all of c without one).
FromFirstSeparator(c, t) ==
    LET k == Len(c) - Len(t)
    IN /\ k >= 0
       /\ t = SubSeq(c, k + 1, Len(c))
       /\ IF HasSeparator(c)
          THEN /\ Len(t) >= 2 /\ t[1] = NL /\ t[2] = NL
               /\ \A j \in 1..k : ~(c[j] = NL /\ c[j + 1] = NL)
          ELSE k = 0

\* The one numeric file of the tree of SpecHeader has been loaded.
HeaderFileLoaded ==
    /\ pc = "walked"
    /\ DOMAIN fs = {1}
    /\ fs[1].isdir
    /\ DOMAIN fs[1].files = {1}
    /\ fs[1].files[1].isdigit

\* C6 as stated: the stored text is the content with everything before the
\* first blank-line separator dropped (the whole content without one), and
\* "From: x\nSubject: y\n\nHello world" is stored as "Hello world".
C6_HeaderDropped ==
    HeaderFileLoaded =>
      LET c == fs[1].files[1].content IN
        /\ Len(texts) = 1
        /\ FromFirstSeparator(c, texts[1])
        /\ c = ExampleContent => texts[1] = HelloWorld

\* C6 as amended: the stored text is the content from its first blank-line
\* separator on, the two newlines of the separator kept (the whole content
\* without one); "From: x\nSubject: y\n\nHello world" is stored as
\* "\n\nHello world".
C6_HeaderDroppedSeparatorKept ==
    HeaderFileLoaded =>
      LET c == fs[1].files[1].content IN
        /\ Len(texts) = 1
        /\ FromFirstSeparator(c, texts[1])
        /\ c = ExampleContent => texts[1] = <<NL, NL>> \o HelloWorld

\* A file with a header and text after the separator has been loaded.
C6_Witness ==
    /\ HeaderFileLoaded
    /\ find(fs[1].files[1].content) > 0
    /\ Len(texts[1]) > 2

ClassDirs == {n \in DOMAIN fs : fs[n].isdir}

NumericFiles ==
    {p \in ClassDirs \X (1..MaxFiles) :
        p[2] \in DOMAIN fs[p[1]].files /\ fs[p[1]].files[p[2]].isdigit}

\* C7: the N class directories get the ids 0..N-1 in sorted name order,
\* labels_index being a bijection of the class names and 0..N-1; every
\* label is below N; labels has one entry per text, the id of the
\* directory the text was read from; a file whose name is not numeric adds
\* to neither list.
C7_Labels ==
    /\ Len(labels) = Len(texts)
    /\ \A k \in DOMAIN labels : labels[k] < Cardinality(DOMAIN labels_index)
    /\ pc = "walked" =>
         LET N == Cardinality(ClassDirs)
             at(p) == 1 + Cardinality({q \in NumericFiles :
                           \/ q[1] < p[1]
                           \/ q[1] = p[1] /\ q[2] < p[2]})
         IN /\ DOMAIN labels_index = ClassDirs
            /\ \A n \in ClassDirs :
                 labels_index[n] = Cardinality({m \in ClassDirs : m < n})
            /\ {labels_index[n] : n \in ClassDirs} = 0..(N - 1)
            /\ \A k \in DOMAIN labels : labels[k] < N
            /\ Len(texts) = Cardinality(NumericFiles)
            /\ \A p \in NumericFiles :
                 /\ labels[at(p)] = labels_index[p[1]]
                 /\ texts[at(p)] = SkipHeader(fs[p[1]].files[p[2]].content)

\* A tree of two class directories, with a file of a numeric name in the
\* second and a file of another name in one of them, has been loaded.
C7_Witness ==
    /\ pc = "walked"
    /\ Cardinality(ClassDirs) = 2
    /\ \E p \in NumericFiles : p[1] = 2
    /\ \E n \in ClassDirs : \E f \in DOMAIN fs[n].files : ~fs[n].files[f].isdigit

\* The word of an id.
WordOfId(i) == CHOOSE w \in DOMAIN word_index : word_index[w] = i

\* C4: in the built matrix, the row of a word absent from the embedding
\* table is all zero, the row of a word present is the vector of the
\* table, and row 0 is all zero.
C4_MatrixRows ==
    pc = "model" =>
      \A i \in DOMAIN embedding_matrix :
        IF i = 0 \/ WordOfId(i) \notin DOMAIN embeddings_index
        THEN embedding_matrix[i] = Zeros(embedding_dim)
        ELSE embedding_matrix[i] = embeddings_index[WordOfId(i)]

\* Every vector of the table has embedding_dim coefficients.
WellFormedTable ==
    \A w \in DOMAIN embeddings_index : Len(embeddings_index[w]) = embedding_dim

\* The rows of C4 on a table of well-formed vectors.
MatrixRowsOfWellFormedTable == WellFormedTable => C4_MatrixRows

\* C9: a line of the embedding file whose number of fields is not
\* 1 + embedding_dim, an empty line included, aborts the load: the load
\* never goes on after such a line.
C9_MalformedLineAborts ==
    (pc = "glove" /\ nlines > 0) => ~Malformed(line)


\* C12: every id of an encoded sequence, and every id of the data tensor,
\* is below num_words = min(MAX_NUM_WORDS, len(word_index) + 1), the number
\* of rows of the embedding matrix, whether the vocabulary reaches the cap or
\* not; the matrix builder writes no row at num_words or above and the
\* embedding lookup of the network reads none: neither raises IndexError.
C12_IdsBelowNumWords ==
    LET rows == Min(MAX_NUM_WORDS, Cardinality(DOMAIN word_index) + 1) IN
      /\ pc # "index_error"
      /\ pc \in {"pad", "matrix", "model", "embedded"} =>
           \A d \in DOMAIN sequences : \A k \in DOMAIN sequences[d] :
             sequences[d][k] < rows
      /\ pc \in {"matrix", "model", "embedded"} =>
           \A d \in DOMAIN data : \A k \in DOMAIN data[d] : data[d][k] < rows
      /\ pc \in {"model", "embedded"} =>
           /\ DOMAIN embedding_matrix = 0..(rows - 1)
           /\ \A w \in DOMAIN word_index \cap DOMAIN embeddings_index :
                word_index[w] < MAX_NUM_WORDS => word_index[w] < rows
      /\ pc = "embedded" =>
           \A d \in DOMAIN data : \A k \in DOMAIN data[d] :
             embedded[d][k] = embedding_matrix[data[d][k]]

\* A corpus whose vocabulary reaches the cap has been encoded and looked
\* up: a word was dropped, the last row of the matrix was written from the
\* table and an id of the data tensor reads it.
C12_Witness ==
    /\ pc = "embedded"
    /\ Cardinality(DOMAIN word_index) >= MAX_NUM_WORDS
    /\ \E w \in DOMAIN word_index \cap DOMAIN embeddings_index :
         word_index[w] = MAX_NUM_WORDS - 1
    /\ \E d \in DOMAIN data : \E k \in DOMAIN data[d] :
         data[d][k] = MAX_NUM_WORDS - 1

====
